---- MODULE Spec2Model ----
(***************************************************************************)
(* Model of src/src/App.tsx: the lexer tokenizeLine, the recursive-descent *)
(* Parser, processStatement and processProgram.                            *)
(*                                                                         *)
(* A JavaScript string is the sequence of its code units; a 0-based         *)
(* JavaScript index i is position i+1 of the sequence.  An ASCII code unit *)
(* is the string of that one character; a code unit outside ASCII is the   *)
(* string of its code point, "U+00A0" for the no-break space, so that the   *)
(* model checker tells all code units apart.                               *)
(***************************************************************************)
EXTENDS Integers, Sequences, FiniteSets, TLC

VARIABLES
    pc,         \* position of the routine under analysis
    line,       \* tokenizeLine: its argument
    scan,       \* tokenizeLine: the locals [i, tokens, brk] of its while loop
    tokens,     \* Parser.tokens
    parser,     \* Parser: [pos, error] and the value parseExpression returned
    statement,  \* processStatement: its argument
    res,        \* processStatement: its return value
    text,       \* processProgram: its argument
    idx,        \* processProgram: loop index
    current,    \* processProgram: text accumulated since the last ';'
    results,    \* processProgram: results
    vars,       \* the variable table: the own properties of the object `vars`
    proto       \* the prototype of the object `vars`

allVars == <<pc, line, scan, tokens, parser, statement, res,
             text, idx, current, results, vars, proto>>

-----------------------------------------------------------------------------
(* Bounds of the model.                                                    *)

MaxLineLen == 3
MaxOperands == 3
MaxStmtLex == 4
MaxStmts == 2

-----------------------------------------------------------------------------
(* Strings.                                                                *)

Lower == {"a","b","c","d","e","f","g","h","i","j","k","l","m",
          "n","o","p","q","r","s","t","u","v","w","x","y","z"}
Upper == {"A","B","C","D","E","F","G","H","I","J","K","L","M",
          "N","O","P","Q","R","S","T","U","V","W","X","Y","Z"}
Digit == {"0","1","2","3","4","5","6","7","8","9"}
HexLetter == {"a","b","c","d","e","f"}

\* ch === "_" || (ch >= "a" && ch <= "z")
isIdentifierStart(ch) == ch = "_" \/ ch \in Lower
isAlpha(ch) == ch \in Lower \/ ch \in Upper
isDigit(ch) == ch \in Digit

\* s[i] for a 0-based i
CharAt(s, i) == s[i + 1]

\* the slice that stops one character early
SliceShort(s, aa, b) == SubSeq(s, aa + 1, (IF b > Len(s) THEN Len(s) ELSE b) - 1)

\* s.slice(a, b) for 0 <= a, b
Slice(s, aa, b) == SubSeq(s, aa + 1, IF b > Len(s) THEN Len(s) ELSE b)

\* the white space and line terminators a text of ASCII characters can hold:
\* U+0009 to U+000D and U+0020
AsciiWhiteSpace == {"\t", "\n", "", "\f", "\r", " "}

\* the other white space and line terminators
UnicodeWhiteSpace ==
    {"U+00A0", "U+1680", "U+2000", "U+2001", "U+2002", "U+2003",
     "U+2004", "U+2005", "U+2006", "U+2007", "U+2008", "U+2009",
     "U+200A", "U+2028", "U+2029", "U+202F", "U+205F", "U+3000",
     "U+FEFF"}

\* the code units String.prototype.trim removes
TrimSpace == AsciiWhiteSpace \cup UnicodeWhiteSpace

RECURSIVE TrimStart(_)
TrimStart(s) ==
    IF s # <<>> /\ Head(s) \in TrimSpace THEN TrimStart(Tail(s)) ELSE s

RECURSIVE TrimEnd(_)
TrimEnd(s) ==
    IF s # <<>> /\ s[Len(s)] \in TrimSpace
    THEN TrimEnd(SubSeq(s, 1, Len(s) - 1)) ELSE s

\* s.trim()
Trim(s) == TrimEnd(TrimStart(s))

\* s.startsWith(p)
StartsWith(s, p) == Len(s) >= Len(p) /\ SubSeq(s, 1, Len(p)) = p

RECURSIVE IndexFrom(_, _, _)
IndexFrom(s, p, i) ==
    IF i + Len(p) > Len(s) THEN -1
    ELSE IF SubSeq(s, i + 1, i + Len(p)) = p THEN i
    ELSE IndexFrom(s, p, i + 1)

\* s.indexOf(p): the 0-based index of the first occurrence, or -1
IndexOf(s, p) == IndexFrom(s, p, 0)

-----------------------------------------------------------------------------
(* tokenizeLine.                                                           *)

Token(type, value, pos) == [type |-> type, value |-> value, pos |-> pos]

\* while (j < n && (isAlpha(line[j]) || isDigit(line[j]) || line[j] === "_")) j++
RECURSIVE IdentifierEnd(_, _)
IdentifierEnd(ln, j) ==
    IF j < Len(ln)
       /\ (isAlpha(CharAt(ln, j)) \/ isDigit(CharAt(ln, j)) \/ CharAt(ln, j) = "_")
    THEN IdentifierEnd(ln, j + 1) ELSE j

\* while (j < n && (isDigit(line[j]) || (line[j] >= "a" && line[j] <= "f"))) j++
RECURSIVE HexEnd(_, _)
HexEnd(ln, j) ==
    IF j < Len(ln) /\ (isDigit(CharAt(ln, j)) \/ CharAt(ln, j) \in HexLetter)
    THEN HexEnd(ln, j + 1) ELSE j

\* One iteration of the while loop, entered with i < n.
TokenizeIteration(ln, basePos, st) ==
    LET n == Len(ln)
        i == st.i
        ch == CharAt(ln, i)
        Push(type, j) ==
            [i |-> j,
             tokens |-> Append(st.tokens, Token(type, Slice(ln, i, j), basePos + i)),
             brk |-> FALSE]
    IN  IF ch \in {" ", "\t", "\r", "\n"} THEN [st EXCEPT !.i = i + 1]
        ELSE IF ch = "/" /\ i + 1 < n /\ CharAt(ln, i + 1) = "/"
        THEN [i |-> i,
              tokens |-> Append(st.tokens, Token("comment", Slice(ln, i, n), basePos + i)),
              brk |-> TRUE]
        ELSE IF ch = ":"
        THEN IF i + 1 < n /\ CharAt(ln, i + 1) = "="
             THEN Push("assign", i + 2)
             ELSE [i |-> i + 1,
                   tokens |-> Append(st.tokens, Token("unknown", <<":">>, basePos + i)),
                   brk |-> FALSE]
        ELSE IF ch = "(" THEN Push("lparen", i + 1)
        ELSE IF ch = ")" THEN Push("rparen", i + 1)
        ELSE IF ch \in {"+", "-", "*", "/"} THEN Push("op", i + 1)
        ELSE IF isIdentifierStart(ch) THEN Push("identifier", IdentifierEnd(ln, i + 1))
        ELSE IF isDigit(ch) THEN Push("hex", HexEnd(ln, i + 1))
        ELSE [i |-> i + 1,
              tokens |-> Append(st.tokens, Token("unknown", <<ch>>, basePos + i)),
              brk |-> FALSE]

\* const tokens = []; let i = 0
ScanStart == [i |-> 0, tokens |-> <<>>, brk |-> FALSE]

\* the loop condition, and the break out of it
Scanning(ln, st) == st.i < Len(ln) /\ ~st.brk

RECURSIVE TokenizeLoop(_, _, _)
TokenizeLoop(ln, basePos, st) ==
    IF Scanning(ln, st)
    THEN TokenizeLoop(ln, basePos, TokenizeIteration(ln, basePos, st))
    ELSE st

tokenizeLine(ln) == TokenizeLoop(ln, 0, ScanStart).tokens

-----------------------------------------------------------------------------
(* JavaScript values the evaluator can hold.  The table is typed               *)
(* Record<string, number>, but `in` and the index operator see the properties  *)
(* the object inherits, so that functions, objects and, by +, strings reach    *)
(* the evaluator.  A value is a record: its type t, the number n (the value of *)
(* a number, the sign of an infinity, the length of a function), the text s    *)
(* (of a string, or the property name a built-in is first found under) and,    *)
(* for a built-in, the object `of` that holds it under that name.              *)

Num(k) == [t |-> "number", n |-> k, s |-> <<>>, of |-> ""]
NaN == [t |-> "NaN", n |-> 0, s |-> <<>>, of |-> ""]
Infinity(sign) == [t |-> "Infinity", n |-> sign, s |-> <<>>, of |-> ""]
Str(chars) == [t |-> "string", n |-> 0, s |-> chars, of |-> ""]
Null == [t |-> "null", n |-> 0, s |-> <<>>, of |-> ""]
Fn(holder, name, length) == [t |-> "function", n |-> length, s |-> name, of |-> holder]

LengthKey == <<"l","e","n","g","t","h">>
NameKey == <<"n","a","m","e">>
PrototypeKey == <<"p","r","o","t","o","t","y","p","e">>
ConstructorKey == <<"c","o","n","s","t","r","u","c","t","o","r">>
ProtoAccessor == <<"_","_","p","r","o","t","o","_","_">>

\* the functions Object.prototype holds, with their length
ObjectPrototypeFunctions ==
    (<<"c","o","n","s","t","r","u","c","t","o","r">> :> 1) @@
    (<<"h","a","s","O","w","n","P","r","o","p","e","r","t","y">> :> 1) @@
    (<<"i","s","P","r","o","t","o","t","y","p","e","O","f">> :> 1) @@
    (<<"p","r","o","p","e","r","t","y","I","s","E","n","u","m","e","r","a","b","l","e">> :> 1) @@
    (<<"t","o","L","o","c","a","l","e","S","t","r","i","n","g">> :> 0) @@
    (<<"t","o","S","t","r","i","n","g">> :> 0) @@
    (<<"v","a","l","u","e","O","f">> :> 0) @@
    (<<"_","_","d","e","f","i","n","e","G","e","t","t","e","r","_","_">> :> 2) @@
    (<<"_","_","d","e","f","i","n","e","S","e","t","t","e","r","_","_">> :> 2) @@
    (<<"_","_","l","o","o","k","u","p","G","e","t","t","e","r","_","_">> :> 1) @@
    (<<"_","_","l","o","o","k","u","p","S","e","t","t","e","r","_","_">> :> 1)

\* the functions Function.prototype holds, with their length
FunctionPrototypeFunctions ==
    (<<"c","o","n","s","t","r","u","c","t","o","r">> :> 1) @@
    (<<"a","p","p","l","y">> :> 2) @@
    (<<"b","i","n","d">> :> 1) @@
    (<<"c","a","l","l">> :> 1) @@
    (<<"t","o","S","t","r","i","n","g">> :> 0)

\* the accessors of Function.prototype whose getter and setter throw a TypeError
RestrictedKeys == {<<"a","r","g","u","m","e","n","t","s">>, <<"c","a","l","l","e","r">>}

\* the functions the constructor Object holds, with their length; the set is
\* that of an ES2023 engine
ObjectFunctions ==
    (<<"a","s","s","i","g","n">> :> 2) @@
    (<<"c","r","e","a","t","e">> :> 2) @@
    (<<"d","e","f","i","n","e","P","r","o","p","e","r","t","i","e","s">> :> 2) @@
    (<<"d","e","f","i","n","e","P","r","o","p","e","r","t","y">> :> 3) @@
    (<<"e","n","t","r","i","e","s">> :> 1) @@
    (<<"f","r","e","e","z","e">> :> 1) @@
    (<<"f","r","o","m","E","n","t","r","i","e","s">> :> 1) @@
    (<<"g","e","t","O","w","n","P","r","o","p","e","r","t","y","D","e","s","c","r","i","p","t","o","r">> :> 2) @@
    (<<"g","e","t","O","w","n","P","r","o","p","e","r","t","y","D","e","s","c","r","i","p","t","o","r","s">> :> 1) @@
    (<<"g","e","t","O","w","n","P","r","o","p","e","r","t","y","N","a","m","e","s">> :> 1) @@
    (<<"g","e","t","O","w","n","P","r","o","p","e","r","t","y","S","y","m","b","o","l","s">> :> 1) @@
    (<<"g","e","t","P","r","o","t","o","t","y","p","e","O","f">> :> 1) @@
    (<<"h","a","s","O","w","n">> :> 2) @@
    (<<"i","s">> :> 2) @@
    (<<"i","s","E","x","t","e","n","s","i","b","l","e">> :> 1) @@
    (<<"i","s","F","r","o","z","e","n">> :> 1) @@
    (<<"i","s","S","e","a","l","e","d">> :> 1) @@
    (<<"k","e","y","s">> :> 1) @@
    (<<"p","r","e","v","e","n","t","E","x","t","e","n","s","i","o","n","s">> :> 1) @@
    (<<"s","e","a","l">> :> 1) @@
    (<<"s","e","t","P","r","o","t","o","t","y","p","e","O","f">> :> 2) @@
    (<<"v","a","l","u","e","s">> :> 1)

ObjectPrototype == [t |-> "object", n |-> 0, s |-> PrototypeKey, of |-> "Object"]
ObjectConstructor == Fn("Object.prototype", ConstructorKey, ObjectPrototypeFunctions[ConstructorKey])
FunctionConstructor ==
    Fn("Function.prototype", ConstructorKey, FunctionPrototypeFunctions[ConstructorKey])
FunctionPrototype == Fn("Function", PrototypeKey, 0)

\* the property names every object literal inherits from Object.prototype
ObjectPrototypeKeys == DOMAIN ObjectPrototypeFunctions \cup {ProtoAccessor}

\* the own property names of the object or function o
OwnKeys(o) ==
    IF o = ObjectPrototype THEN ObjectPrototypeKeys
    ELSE IF o = FunctionPrototype
    THEN DOMAIN FunctionPrototypeFunctions \cup RestrictedKeys \cup {LengthKey, NameKey}
    ELSE IF o = ObjectConstructor
    THEN DOMAIN ObjectFunctions \cup {LengthKey, NameKey, PrototypeKey}
    ELSE IF o = FunctionConstructor THEN {LengthKey, NameKey, PrototypeKey}
    ELSE {LengthKey, NameKey}

\* the name property of the function f
FunctionName(f) ==
    IF f = ObjectConstructor THEN <<"O","b","j","e","c","t">>
    ELSE IF f = FunctionConstructor THEN <<"F","u","n","c","t","i","o","n">>
    ELSE IF f = FunctionPrototype THEN <<>>
    ELSE f.s

\* the value of the own data property `name` of o
OwnValue(o, name) ==
    IF o = ObjectPrototype THEN Fn("Object.prototype", name, ObjectPrototypeFunctions[name])
    ELSE IF name = LengthKey THEN Num(o.n)
    ELSE IF name = NameKey THEN Str(FunctionName(o))
    ELSE IF o = FunctionPrototype
    THEN Fn("Function.prototype", name, FunctionPrototypeFunctions[name])
    ELSE IF o = FunctionConstructor THEN FunctionPrototype
    ELSE IF name = PrototypeKey THEN ObjectPrototype
    ELSE Fn("Object", name, ObjectFunctions[name])

\* the own property `name` of o is a data property that is not writable:
\* length and name of a function, prototype of a constructor
IsReadOnly(o, name) == o.t = "function" /\ name \in {LengthKey, NameKey, PrototypeKey}

\* the own property `name` of o is an accessor that throws
IsRestricted(o, name) == o = FunctionPrototype /\ name \in RestrictedKeys

\* the prototype of the built-in o
PrototypeOf(o) ==
    IF o = ObjectPrototype THEN Null
    ELSE IF o = FunctionPrototype THEN ObjectPrototype
    ELSE FunctionPrototype

\* the first object on the prototype chain from o that has `name` as an own
\* property, or null
RECURSIVE Holder(_, _)
Holder(o, name) ==
    IF o = Null THEN Null
    ELSE IF name \in OwnKeys(o) THEN o
    ELSE Holder(PrototypeOf(o), name)

(* Conversions and arithmetic.  The numbers are the integers (far below     *)
(* 2^53, where the arithmetic of JavaScript is exact), NaN and the          *)
(* infinities; -0 is not told apart from 0, no operation here does.         *)

DigitChars == <<"0","1","2","3","4","5","6","7","8","9">>

RECURSIVE Decimal(_)
Decimal(k) ==
    IF k < 10 THEN <<DigitChars[k + 1]>>
    ELSE Decimal(k \div 10) \o <<DigitChars[(k % 10) + 1]>>

InfinityText == <<"I","n","f","i","n","i","t","y">>

\* String(v)
StringOf(v) ==
    IF v.t = "number" THEN (IF v.n < 0 THEN <<"-">> \o Decimal(-v.n) ELSE Decimal(v.n))
    ELSE IF v.t = "NaN" THEN <<"N","a","N">>
    ELSE IF v.t = "Infinity" THEN (IF v.n < 0 THEN <<"-">> ELSE <<>>) \o InfinityText
    ELSE IF v.t = "string" THEN v.s
    ELSE IF v.t = "function"
    THEN <<"f","u","n","c","t","i","o","n"," ">> \o FunctionName(v) \o <<"(",")"," ","{"," ","[","n","a","t","i","v","e"," ","c","o","d","e","]"," ","}">>
    ELSE <<"[","o","b","j","e","c","t"," ","O","b","j","e","c","t","]">>

\* the value of a digit of a numeric literal
DigitValue ==
    [c \in Digit \cup HexLetter \cup {"A","B","C","D","E","F"} |->
        CASE c = "0" -> 0 [] c = "1" -> 1 [] c = "2" -> 2 [] c = "3" -> 3
          [] c = "4" -> 4 [] c = "5" -> 5 [] c = "6" -> 6 [] c = "7" -> 7
          [] c = "8" -> 8 [] c = "9" -> 9 [] c \in {"a", "A"} -> 10
          [] c \in {"b", "B"} -> 11 [] c \in {"c", "C"} -> 12
          [] c \in {"d", "D"} -> 13 [] c \in {"e", "E"} -> 14
          [] c \in {"f", "F"} -> 15]

\* the digits of chars read with the radix, or NaN when chars is empty or
\* holds a character that is no digit of the radix
RECURSIVE RadixValue(_, _, _)
RadixValue(chars, radix, acc) ==
    IF chars = <<>> THEN Num(acc)
    ELSE IF Head(chars) \notin DOMAIN DigitValue \/ DigitValue[Head(chars)] >= radix THEN NaN
    ELSE RadixValue(Tail(chars), radix, acc * radix + DigitValue[Head(chars)])

Digits(chars, radix) == IF chars = <<>> THEN NaN ELSE RadixValue(chars, radix, 0)

\* a literal without white space around it: a radix prefix and digits, or a
\* sign and Infinity or decimal digits.  Literals with a fraction or an
\* exponent have no integer value in general and are read as NaN here; no
\* string the evaluator builds is one.
NumericLiteral(u, sign, body) ==
    IF Len(u) >= 2 /\ u[1] = "0" /\ u[2] \in {"x", "X"} THEN Digits(SubSeq(u, 3, Len(u)), 16)
    ELSE IF Len(u) >= 2 /\ u[1] = "0" /\ u[2] \in {"o", "O"} THEN Digits(SubSeq(u, 3, Len(u)), 8)
    ELSE IF Len(u) >= 2 /\ u[1] = "0" /\ u[2] \in {"b", "B"} THEN Digits(SubSeq(u, 3, Len(u)), 2)
    ELSE IF body = InfinityText THEN Infinity(sign)
    ELSE IF Digits(body, 10) = NaN THEN NaN
    ELSE Num(sign * Digits(body, 10).n)

\* Number(chars) for the trimmed text u
TrimmedToNumber(u) ==
    IF u = <<>> THEN Num(0)
    ELSE IF u[1] = "-" THEN NumericLiteral(u, -1, Tail(u))
    ELSE IF u[1] = "+" THEN NumericLiteral(u, 1, Tail(u))
    ELSE NumericLiteral(u, 1, u)

\* Number(chars)
StringToNumber(chars) == TrimmedToNumber(Trim(chars))

\* the primitive an operand of an arithmetic operator is converted to: an
\* object or a function gives the string its toString returns
ToPrimitive(v) == IF v.t \in {"object", "function"} THEN Str(StringOf(v)) ELSE v

\* the number an operand of - * / is converted to
ToNumber(v) == IF ToPrimitive(v).t = "string" THEN StringToNumber(ToPrimitive(v).s) ELSE v

Sign(k) == IF k < 0 THEN -1 ELSE IF k > 0 THEN 1 ELSE 0

\* l + r for numbers
NumAdd(l, r) ==
    IF l.t = "NaN" \/ r.t = "NaN" THEN NaN
    ELSE IF l.t = "Infinity" THEN (IF r.t = "Infinity" /\ r.n # l.n THEN NaN ELSE l)
    ELSE IF r.t = "Infinity" THEN r
    ELSE Num(l.n + r.n)

\* -r for a number
NumNeg(r) == IF r.t = "NaN" THEN NaN ELSE [r EXCEPT !.n = -r.n]

\* l * r for numbers
NumMul(l, r) ==
    IF l.t = "NaN" \/ r.t = "NaN" THEN NaN
    ELSE IF l.t = "Infinity" \/ r.t = "Infinity"
    THEN (IF Sign(l.n) * Sign(r.n) = 0 THEN NaN ELSE Infinity(Sign(l.n) * Sign(r.n)))
    ELSE Num(l.n * r.n)

Abs(k) == IF k < 0 THEN -k ELSE k

\* the quotient rounded toward zero
TruncatedQuotient(aa, b) ==
    IF (aa >= 0) = (b > 0) THEN Abs(aa) \div Abs(b) ELSE -(Abs(aa) \div Abs(b))

\* Math.floor(a / b) for integers a and b # 0: the quotient of the magnitudes,
\* rounded up in magnitude when the signs differ and the division is inexact
FloorQuotient(aa, b) ==
    IF (aa >= 0) = (b > 0)
    THEN Abs(aa) \div Abs(b)
    ELSE -((Abs(aa) + Abs(b) - 1) \div Abs(b))

\* Math.floor(l / r) for numbers; a zero r is the +0 a string converts to
NumFloorDiv(l, r) ==
    IF l.t = "NaN" \/ r.t = "NaN" THEN NaN
    ELSE IF l.t = "Infinity"
    THEN (IF r.t = "Infinity" THEN NaN ELSE Infinity(IF r.n < 0 THEN -l.n ELSE l.n))
    ELSE IF r.t = "Infinity" THEN Num(0)
    ELSE IF r.n = 0 THEN (IF l.n = 0 THEN NaN ELSE Infinity(Sign(l.n)))
    ELSE Num(FloorQuotient(l.n, r.n))

\* left + right: a string, an object or a function operand makes it a
\* concatenation
JsAdd(l, r) ==
    IF ToPrimitive(l).t = "string" \/ ToPrimitive(r).t = "string"
    THEN Str(StringOf(l) \o StringOf(r))
    ELSE NumAdd(l, r)

\* left - right
JsSub(l, r) == NumAdd(ToNumber(l), NumNeg(ToNumber(r)))

\* left * right
JsMul(l, r) == NumMul(ToNumber(l), ToNumber(r))

\* Math.floor(left / right), right !== 0
JsFloorDiv(l, r) == NumFloorDiv(ToNumber(l), ToNumber(r))

(* The object `vars`: its own properties and its prototype.                *)

Table(own, prototype) == [own |-> own, proto |-> prototype]

\* const vars = {}
EmptyTable == Table([k \in {} |-> Null], ObjectPrototype)

\* name in vars: an own property, or one found on the prototype chain
HasProperty(vt, name) == name \in DOMAIN vt.own \/ Holder(vt.proto, name) # Null

\* the value of the inherited property `name`, held by h: the getter of
\* __proto__ returns the prototype of vars
InheritedValue(vt, h, name) ==
    IF h = ObjectPrototype /\ name = ProtoAccessor THEN vt.proto ELSE OwnValue(h, name)

\* reading vars[name] throws a TypeError: the property is an inherited accessor
\* of Function.prototype
GetThrows(vt, name) ==
    name \notin DOMAIN vt.own /\ IsRestricted(Holder(vt.proto, name), name)

\* vars[name], for a name that is in vars and whose read does not throw
GetProperty(vt, name) ==
    IF name \in DOMAIN vt.own THEN vt.own[name]
    ELSE InheritedValue(vt, Holder(vt.proto, name), name)

\* vars[name] = val throws a TypeError: the module is strict code, and the
\* property is inherited and read-only or an accessor whose setter throws
SetThrows(vt, name) ==
    /\ name \notin DOMAIN vt.own
    /\ \/ IsRestricted(Holder(vt.proto, name), name)
       \/ /\ Holder(vt.proto, name) # Null
          /\ IsReadOnly(Holder(vt.proto, name), name)

\* vars[name] = val, when it does not throw.  The setter of the inherited
\* __proto__ makes an object or a function the prototype of vars and drops a
\* primitive; any other name becomes or stays an own property.
SetProperty(vt, name, val) ==
    IF name = ProtoAccessor /\ name \notin DOMAIN vt.own
    THEN IF val.t \in {"object", "function"} THEN Table(vt.own, val) ELSE vt
    ELSE Table([k \in DOMAIN vt.own \cup {name} |-> IF k = name THEN val ELSE vt.own[k]],
               vt.proto)

-----------------------------------------------------------------------------
(* Parser.                                                                 *)

\* An error message: its template, the text and the number interpolated.
Error(kind, arg, at) == [kind |-> kind, arg |-> arg, at |-> at]

\* this.error is undefined
NoError == Error("", <<>>, 0)

\* /^[0-9][0-9a-f]*$/.test(value)
IsHexLiteral(value) ==
    /\ value # <<>>
    /\ value[1] \in Digit
    /\ \A k \in 2..Len(value) : value[k] \in Digit \cup HexLetter

\* /^[A-Z]/.test(value)
StartsUppercase(value) == value # <<>> /\ value[1] \in Upper

HexDigitValue ==
    [c \in Digit \cup HexLetter |->
        CASE c = "0" -> 0 [] c = "1" -> 1 [] c = "2" -> 2 [] c = "3" -> 3
          [] c = "4" -> 4 [] c = "5" -> 5 [] c = "6" -> 6 [] c = "7" -> 7
          [] c = "8" -> 8 [] c = "9" -> 9 [] c = "a" -> 10 [] c = "b" -> 11
          [] c = "c" -> 12 [] c = "d" -> 13 [] c = "e" -> 14 [] c = "f" -> 15]

\* the literal read with radix 10 for the weight of a digit
RECURSIVE ParseIntRadix10(_)
ParseIntRadix10(value) ==
    IF value = <<>> THEN 0
    ELSE 10 * ParseIntRadix10(SubSeq(value, 1, Len(value) - 1))
         + HexDigitValue[value[Len(value)]]

\* parseInt(value, 16) of a value that passed IsHexLiteral
RECURSIVE ParseInt16(_)
ParseInt16(value) ==
    IF value = <<>> THEN 0
    ELSE 16 * ParseInt16(SubSeq(value, 1, Len(value) - 1))
         + HexDigitValue[value[Len(value)]]

\* The state a parse method leaves when it returns: the fields pos and error,
\* and its return value.
Parsed(pos, error, val) == [pos |-> pos, error |-> error, val |-> val, thrown |-> FALSE]

\* The state a parse method leaves when a TypeError is thrown through it.
Thrown(pos, error) == [pos |-> pos, error |-> error, val |-> Null, thrown |-> TRUE]

RECURSIVE parseAddSub(_, _, _, _)
RECURSIVE parseMulDiv(_, _, _, _)
RECURSIVE parseFactor(_, _, _, _)
RECURSIVE AddSubLoop(_, _, _, _, _)
RECURSIVE MulDivLoop(_, _, _, _, _)

\* parseFactor after const val = this.parseAddSub(), which left `inner`
CloseParenthesis(toks, inner) ==
    IF inner.thrown THEN inner
    ELSE IF inner.error # NoError THEN Parsed(inner.pos, inner.error, Null)
    ELSE IF inner.pos >= Len(toks) \/ toks[inner.pos + 1].type # "rparen"
    THEN Parsed(inner.pos, Error("Missing closing parenthesis", <<>>, 0), Null)
    ELSE Parsed(inner.pos + 1, inner.error, inner.val)

parseFactor(toks, vt, pos, error) ==
    IF pos >= Len(toks)
    THEN Parsed(pos, Error("Expression is incomplete", <<>>, 0), Null)
    ELSE
    LET tok == toks[pos + 1] IN
    IF tok.type = "hex" THEN
        IF ~IsHexLiteral(tok.value)
        THEN Parsed(pos, Error("Invalid hex literal", tok.value, 0), Null)
        ELSE Parsed(pos + 1, error, Num(ParseInt16(tok.value)))
    ELSE IF tok.type = "identifier" THEN
        IF StartsUppercase(tok.value)
        THEN Parsed(pos, Error("Identifier cannot start with uppercase letter",
                               tok.value, 0), Null)
        ELSE IF ~HasProperty(vt, tok.value)
        THEN Parsed(pos + 1, Error("Undefined variable", tok.value, 0), Null)
        ELSE IF GetThrows(vt, tok.value) THEN Thrown(pos + 1, error)
        ELSE Parsed(pos + 1, error, GetProperty(vt, tok.value))
    ELSE IF tok.type = "lparen"
    THEN CloseParenthesis(toks, parseAddSub(toks, vt, pos + 1, error))
    ELSE Parsed(pos, Error("Unexpected token", tok.value, 0), Null)

\* the body of parseMulDiv's loop after const right = this.parseFactor()
MulDivStep(toks, vt, op, left, right) ==
    IF right.thrown THEN right
    ELSE IF right.error # NoError \/ right.val = Null \/ left = Null
    THEN Parsed(right.pos, right.error, Null)
    ELSE IF op = <<"/">>
    THEN IF right.val = Num(0)
         THEN Parsed(right.pos, Error("Division by zero", <<>>, 0), Null)
         ELSE MulDivLoop(toks, vt, right.pos, right.error, JsFloorDiv(left, right.val))
    ELSE MulDivLoop(toks, vt, right.pos, right.error, JsMul(left, right.val))

\* the while loop of parseMulDiv, entered with the value of `left`
MulDivLoop(toks, vt, pos, error, left) ==
    IF pos < Len(toks) /\ toks[pos + 1].type = "op"
       /\ toks[pos + 1].value \in {<<"*">>, <<"/">>}
    THEN MulDivStep(toks, vt, toks[pos + 1].value, left,
                    parseFactor(toks, vt, pos + 1, error))
    ELSE Parsed(pos, error, left)

\* parseMulDiv after let left = this.parseFactor()
MulDivFrom(toks, vt, left) ==
    IF left.thrown THEN left
    ELSE IF left.error # NoError THEN Parsed(left.pos, left.error, Null)
    ELSE MulDivLoop(toks, vt, left.pos, left.error, left.val)

parseMulDiv(toks, vt, pos, error) ==
    MulDivFrom(toks, vt, parseFactor(toks, vt, pos, error))

\* the body of parseAddSub's loop after const right = this.parseMulDiv()
AddSubStep(toks, vt, op, left, right) ==
    IF right.thrown THEN right
    ELSE IF right.error # NoError \/ right.val = Null \/ left = Null
    THEN Parsed(right.pos, right.error, Null)
    ELSE AddSubLoop(toks, vt, right.pos, right.error,
                    IF op = <<"+">> THEN JsAdd(left, right.val)
                                    ELSE JsSub(left, right.val))

\* the while loop of parseAddSub, entered with the value of `left`
AddSubLoop(toks, vt, pos, error, left) ==
    IF pos < Len(toks) /\ toks[pos + 1].type = "op"
       /\ toks[pos + 1].value \in {<<"+">>, <<"-">>}
    THEN AddSubStep(toks, vt, toks[pos + 1].value, left,
                    parseMulDiv(toks, vt, pos + 1, error))
    ELSE Parsed(pos, error, left)

\* parseAddSub after let left = this.parseMulDiv()
AddSubFrom(toks, vt, left) ==
    IF left.thrown THEN left
    ELSE IF left.error # NoError THEN Parsed(left.pos, left.error, Null)
    ELSE AddSubLoop(toks, vt, left.pos, left.error, left.val)

parseAddSub(toks, vt, pos, error) ==
    AddSubFrom(toks, vt, parseMulDiv(toks, vt, pos, error))

\* parseExpression after const val = this.parseAddSub()
EndOfExpression(toks, v) ==
    IF v.thrown THEN v
    ELSE IF v.error # NoError THEN Parsed(v.pos, v.error, Null)
    ELSE IF v.pos < Len(toks)
    THEN Parsed(v.pos, Error("Unexpected token at position",
                             toks[v.pos + 1].value, toks[v.pos + 1].pos), Null)
    ELSE v

\* new Parser(tokens, vars).parseExpression(): the parser's fields afterwards
\* and the value returned
parseExpression(toks, vt) == EndOfExpression(toks, parseAddSub(toks, vt, 0, NoError))

-----------------------------------------------------------------------------
(* processStatement.                                                       *)

\* what processStatement returns, and the table it leaves
Returned(ok, err, vt) == [ok |-> ok, err |-> err, vars |-> vt, thrown |-> FALSE]

\* processStatement left by a TypeError, and the table it leaves
Threw(vt) == [ok |-> FALSE, err |-> NoError, vars |-> vt, thrown |-> TRUE]

\* /^[a-z_][A-Za-z0-9_]*$/.test(leftRaw)
IsLeftIdentifier(leftRaw) ==
    /\ leftRaw # <<>>
    /\ leftRaw[1] \in Lower \cup {"_"}
    /\ \A k \in 2..Len(leftRaw) : leftRaw[k] \in Lower \cup Upper \cup Digit \cup {"_"}

UndefinedVariableText ==
    <<"U","n","d","e","f","i","n","e","d"," ","v","a","r","i","a","b","l","e">>
DivisionByZeroText ==
    <<"D","i","v","i","s","i","o","n"," ","b","y"," ","z","e","r","o">>

\* /Undefined variable|Division by zero/.test(msg): the words are the message's
\* template, or stand in the token text the message quotes
IsSemanticMessage(err) ==
    \/ err.kind \in {"Undefined variable", "Division by zero"}
    \/ IndexOf(err.arg, UndefinedVariableText) >= 0
    \/ IndexOf(err.arg, DivisionByZeroText) >= 0

\* the index of the first token whose type is one of `types`, or 0
FirstOfType(toks, types) ==
    LET hits == {k \in 1..Len(toks) : toks[k].type \in types}
    IN  IF hits = {} THEN 0 ELSE CHOOSE k \in hits : \A m \in hits : k <= m

\* const msg = parser.error || "Parse error"
ParseMessage(p) == IF p.error # NoError THEN p.error ELSE Error("Parse error", <<>>, 0)

\* if (parser.error || val === null) { ... } of both branches, for the parser
\* state `p`; `done` is what the branch returns otherwise
AfterParse(p, vt, done) ==
    IF p.thrown THEN Threw(vt)
    ELSE IF p.error # NoError \/ p.val = Null
    THEN IF IsSemanticMessage(ParseMessage(p))
         THEN Returned(TRUE, ParseMessage(p), vt)
         ELSE Returned(FALSE, ParseMessage(p), vt)
    ELSE done

\* the assignment branch from `new Parser(tokens, vars)` on
EvaluateAssignment(leftRaw, p, vt) ==
    AfterParse(p, vt, IF SetThrows(vt, leftRaw) THEN Threw(vt)
                      ELSE Returned(TRUE, NoError, SetProperty(vt, leftRaw, p.val)))

\* the assignment branch from the loop over the tokens on
CheckAssignmentTokens(leftRaw, toks, bad, vt) ==
    IF bad # 0
    THEN IF toks[bad].type = "unknown"
         THEN Returned(FALSE, Error("Unknown token in expression", toks[bad].value, 0), vt)
         ELSE Returned(FALSE, Error("Comment inside expression is not allowed",
                                    <<>>, 0), vt)
    ELSE EvaluateAssignment(leftRaw, parseExpression(toks, vt), vt)

\* the assignment branch from the tests of leftRaw on
CheckAssignment(leftRaw, toks, vt) ==
    IF ~IsLeftIdentifier(leftRaw)
    THEN Returned(FALSE, Error("Left side of := must be identifier", leftRaw, 0), vt)
    ELSE IF StartsUppercase(leftRaw)
    THEN Returned(FALSE, Error("Identifier cannot start with uppercase letter",
                               leftRaw, 0), vt)
    ELSE CheckAssignmentTokens(leftRaw, toks, FirstOfType(toks, {"unknown", "comment"}), vt)

\* if (assignIndex >= 0) { ... }
processAssignment(stmt, vt, assignIndex) ==
    CheckAssignment(Trim(Slice(stmt, 0, assignIndex)),
                    tokenizeLine(Trim(Slice(stmt, assignIndex + 2, Len(stmt)))),
                    vt)

\* the statement without ':=', from tokens.length === 0 on
CheckBareTokens(toks, bad, vt) ==
    IF Len(toks) = 0 THEN Returned(TRUE, NoError, vt)
    ELSE IF Len(toks) = 1
    THEN IF toks[1].type = "hex"
         THEN IF ~IsHexLiteral(toks[1].value)
              THEN Returned(FALSE, Error("Invalid hex literal", toks[1].value, 0), vt)
              ELSE Returned(TRUE, NoError, vt)
         ELSE IF toks[1].type = "identifier"
         THEN IF StartsUppercase(toks[1].value)
              THEN Returned(FALSE, Error("Identifier cannot start with uppercase letter",
                                         toks[1].value, 0), vt)
              ELSE Returned(TRUE, NoError, vt)
         ELSE Returned(FALSE, Error("Invalid standalone token", toks[1].value, 0), vt)
    ELSE IF bad # 0
    THEN Returned(FALSE, Error("Unknown token", toks[bad].value, 0), vt)
    ELSE AfterParse(parseExpression(toks, vt), vt, Returned(TRUE, NoError, vt))

\* the statement without ':='
BareTokens(toks, vt) == CheckBareTokens(toks, FirstOfType(toks, {"unknown"}), vt)

processBareExpression(stmt, vt) == BareTokens(tokenizeLine(stmt), vt)

\* the statement that is no comment, from const assignIndex on
AssignmentOrExpression(stmt, vt, assignIndex) ==
    IF assignIndex >= 0 THEN processAssignment(stmt, vt, assignIndex)
    ELSE processBareExpression(stmt, vt)

\* the statement processed without the test for a comment
processStatementNoCommentTest(stmt, vt) ==
    AssignmentOrExpression(stmt, vt, IndexOf(stmt, <<":", "=">>))

processStatement(stmt, vt) ==
    IF StartsWith(Trim(stmt), <<"/", "/">>) THEN Returned(TRUE, NoError, vt)
    ELSE AssignmentOrExpression(stmt, vt, IndexOf(stmt, <<":", "=">>))

-----------------------------------------------------------------------------
(* processProgram.                                                         *)

\* message: res.ok ? undefined : res.err
OutcomeMessage(r) == IF r.ok THEN NoError ELSE r.err

\* the entry of results for a statement: its text, with the terminator the
\* call site appends, and what processStatement returned for it
Outcome(raw, r) ==
    [raw |-> raw,
     status |-> IF r.ok THEN "accepted" ELSE "cancel",
     message |-> OutcomeMessage(r)]

-----------------------------------------------------------------------------
(* Input texts.                                                            *)

\* all sequences over S of length at most n
SeqsUpTo(S, n) == UNION {[1..k -> S] : k \in 0..n}

\* the concatenation of a sequence of texts
RECURSIVE Flatten(_)
Flatten(ss) == IF ss = <<>> THEN <<>> ELSE Head(ss) \o Flatten(Tail(ss))

\* one character of each class the lexer tells apart
LineAlphabet == {" ", "/", ":", "=", "(", "+", "a", "g", "A", "1", "#"}

Lines == SeqsUpTo(LineAlphabet, MaxLineLen)

\* operands and operators of the generated expressions
Atoms == {<<"0">>, <<"3">>, <<"1", "a">>, <<"x">>}
Operators == {<<"+">>, <<"-">>, <<"*">>, <<"/">>}

\* operand k of n, with the parenthesis that opens or closes at it
Operand(atom, k, span) ==
    (IF k = span[1] THEN <<"(">> ELSE <<>>) \o atom
        \o (IF k = span[2] THEN <<")">> ELSE <<>>)

\* atoms joined by operators, operands span[1]..span[2] in parentheses
ExpressionText(atoms, ops, span) ==
    Flatten([k \in 1..Len(atoms) |->
                (IF k = 1 THEN <<>> ELSE ops[k - 1]) \o Operand(atoms[k], k, span)])

\* the expressions the specification gives as examples
TwoPlusThreeTimesFour == <<"2", " ", "+", " ", "3", " ", "*", " ", "4">>
HexSum == <<"1", "a", "5", " ", "+", " ", "2", "f">>

GeneratedExpressions ==
    {ExpressionText(atoms, ops, span) :
        <<atoms, ops, span>> \in
            UNION {[1..n -> Atoms] \X [1..(n - 1) -> Operators]
                     \X ({<<0, 0>>} \cup {<<i, j>> \in (1..n) \X (1..n) : i <= j})
                   : n \in 1..MaxOperands}}

Expressions == GeneratedExpressions \cup {TwoPlusThreeTimesFour, HexSum}

x == <<"x">>

\* the identifier the value of an expression is assigned to
abc == <<"a", "b", "c">>

\* tables in which the identifier of the expressions is defined
ExpressionTables == {SetProperty(EmptyTable, x, Num(v)) : v \in {-2, 5}}

\* the lexemes statements are put together from
StatementLexemes ==
    {<<"a">>, <<"A">>, <<"1">>, <<":", "=">>, <<"/">>, <<")">>, <<"#">>, <<" ">>}

\* processProgram passes statements that are trimmed and not empty
IsTrimmed(s) == s # <<>> /\ Trim(s) = s

Statements ==
    {s \in {Flatten(ls) : ls \in SeqsUpTo(StatementLexemes, MaxStmtLex)} : IsTrimmed(s)}

a == <<"a">>

\* the tables a statement is processed against
StatementTables ==
    {EmptyTable, SetProperty(EmptyTable, a, Num(0)), SetProperty(EmptyTable, a, Num(3))}

\* the statements programs are put together from
StatementPool ==
    { <<>>,
      <<" ", "a", ":", "=", "1", "a", "5", "+", "2", "f", " ">>,
      <<"b", ":", "=", "a", "*", "2">>,
      <<"a", ":", "=", "b", "/", "0">>,
      <<"n", ":", "=", "a", "+", "b", "*", "2">>,
      <<"n", ":", "=", "v", "a", "l", "u", "e", "O", "f", "+", "b">>,
      <<"b", ":", "=", "v", "a", "l", "u", "e", "O", "f">>,
      <<"b", ":", "=", "a", ")">>,
      <<"/", "/", " ", "a", ":", "=", "#">>,
      <<"a", "+">>,
      <<"A", ":", "=", "1">>,
      <<"b">>,
      <<"b", "-", "1">>,
      <<"", "U+00A0", " ", "U+2028">>,
      <<"U+00E9">>,
      <<"_", "_", "p", "r", "o", "t", "o", "_", "_", ":", "=", "v", "a", "l", "u", "e", "O", "f">>,
      <<"b", ":", "=", "c", "a", "l", "l", "e", "r">>,
      <<"b", ":", "=", "l", "e", "n", "g", "t", "h", "+", "n", "a", "m", "e">>,
      <<"n", "a", "m", "e", ":", "=", "1">> }

\* statements joined by ';'
RECURSIVE Join(_)
Join(ss) ==
    IF ss = <<>> THEN <<>>
    ELSE IF Len(ss) = 1 THEN Head(ss)
    ELSE Head(ss) \o <<";">> \o Join(Tail(ss))

\* programs of at most MaxStmts statements, the last one closed by ';' or not
Programs ==
    UNION {{Join(ss), Join(ss) \o <<";">>} : ss \in SeqsUpTo(StatementPool, MaxStmts)}

-----------------------------------------------------------------------------
(* The state machines.                                                     *)

(* tokenizeLine, one loop iteration at a time *)

InitTok ==
    /\ pc = "scan"
    /\ line \in Lines
    /\ scan = ScanStart
    /\ tokens = <<>>
    /\ parser = Parsed(0, NoError, Null)
    /\ statement = <<>>
    /\ res = [ok |-> TRUE, err |-> NoError]
    /\ text = <<>>
    /\ idx = 0
    /\ current = <<>>
    /\ results = <<>>
    /\ vars = EmptyTable.own
    /\ proto = EmptyTable.proto

ScanIteration ==
    /\ pc = "scan"
    /\ Scanning(line, scan)
    /\ scan' = TokenizeIteration(line, 0, scan)
    /\ UNCHANGED <<pc, line, tokens, parser, statement, res,
                   text, idx, current, results, vars, proto>>

ScanReturn ==
    /\ pc = "scan"
    /\ ~Scanning(line, scan)
    /\ tokens' = scan.tokens
    /\ pc' = "scanned"
    /\ UNCHANGED <<line, scan, parser, statement, res,
                   text, idx, current, results, vars, proto>>

NextTok == ScanIteration \/ ScanReturn

SpecTok == InitTok /\ [][NextTok]_allVars

\* the loop runs on: nothing suspends a synchronous function
SpecTokFair == SpecTok /\ WF_allVars(NextTok)

\* the caller's view of a call that returned `r`, or that threw
Return(r) ==
    /\ vars' = r.vars.own
    /\ proto' = r.vars.proto
    /\ IF r.thrown
       THEN pc' = "thrown" /\ UNCHANGED res
       ELSE pc' = "returned" /\ res' = [ok |-> r.ok, err |-> r.err]

(* The assignment abc := line in processStatement, from new Parser(tokens,  *)
(* vars) on: parser.parseExpression(), then the tests of its outcome and    *)
(* vars[leftRaw] = val.                                                     *)

InitParse ==
    /\ pc = "parse"
    /\ line \in Expressions
    /\ \E vt \in ExpressionTables : vars = vt.own /\ proto = vt.proto
    /\ scan = ScanStart
    /\ tokens = tokenizeLine(line)
    /\ parser = Parsed(0, NoError, Null)
    /\ statement = abc \o <<":", "=">> \o line
    /\ res = [ok |-> TRUE, err |-> NoError]
    /\ text = <<>>
    /\ idx = 0
    /\ current = <<>>
    /\ results = <<>>

ParseExpression ==
    /\ pc = "parse"
    /\ parser' = parseExpression(tokens, Table(vars, proto))
    /\ pc' = "parsed"
    /\ UNCHANGED <<line, scan, tokens, statement, res,
                   text, idx, current, results, vars, proto>>

\* if (parser.error || val === null) { ... } vars[leftRaw] = val; return { ok: true }
Assign ==
    /\ pc = "parsed"
    /\ Return(EvaluateAssignment(abc, parser, Table(vars, proto)))
    /\ UNCHANGED <<line, scan, tokens, parser, statement,
                   text, idx, current, results>>

NextParse == ParseExpression \/ Assign

SpecParse == InitParse /\ [][NextParse]_allVars

(* processStatement(statement, vars) *)

InitStmt ==
    /\ pc = "call"
    /\ statement \in Statements
    /\ \E vt \in StatementTables : vars = vt.own /\ proto = vt.proto
    /\ line = <<>>
    /\ scan = ScanStart
    /\ tokens = <<>>
    /\ parser = Parsed(0, NoError, Null)
    /\ res = [ok |-> TRUE, err |-> NoError]
    /\ text = <<>>
    /\ idx = 0
    /\ current = <<>>
    /\ results = <<>>

ProcessStatement ==
    /\ pc = "call"
    /\ Return(processStatement(statement, Table(vars, proto)))
    /\ UNCHANGED <<line, scan, tokens, parser, statement,
                   text, idx, current, results>>

NextStmt == ProcessStatement

SpecStmt == InitStmt /\ [][NextStmt]_allVars

(* processProgram(text), one loop iteration at a time *)

Init ==
    /\ pc = "loop"
    /\ text \in Programs
    /\ idx = 0
    /\ current = <<>>
    /\ results = <<>>
    /\ vars = EmptyTable.own
    /\ proto = EmptyTable.proto
    /\ line = <<>>
    /\ scan = ScanStart
    /\ tokens = <<>>
    /\ parser = Parsed(0, NoError, Null)
    /\ statement = <<>>
    /\ res = [ok |-> TRUE, err |-> NoError]

\* const res = processStatement(statementRaw, vars); results.push(...), for the
\* value `r` of the call; `terminator` is what the call site appends to the
\* text.  A TypeError thrown in the call leaves processProgram: nothing catches
\* it.
PushResult(statementRaw, r, terminator, onward) ==
    /\ statement' = statementRaw
    /\ vars' = r.vars.own
    /\ proto' = r.vars.proto
    /\ IF r.thrown
       THEN pc' = "thrown" /\ UNCHANGED <<res, results>>
       ELSE /\ pc' = onward
            /\ res' = [ok |-> r.ok, err |-> r.err]
            /\ results' = Append(results, Outcome(statementRaw \o terminator, r))

\* the statement of the loop body, for the value `r` of its call, and
\* current = ""; idx++ after it
SegmentProcessed(statementRaw, r) ==
    /\ PushResult(statementRaw, r, <<";">>, "loop")
    /\ IF r.thrown THEN UNCHANGED <<current, idx>>
       ELSE current' = <<>> /\ idx' = idx + 1

\* if (statementRaw.length > 0) { ... } current = ""; idx++
ProcessSegment(statementRaw) ==
    IF Len(statementRaw) > 0
    THEN SegmentProcessed(statementRaw, processStatement(statementRaw, Table(vars, proto)))
    ELSE /\ current' = <<>>
         /\ idx' = idx + 1
         /\ UNCHANGED <<pc, statement, res, vars, proto, results>>

\* res.ok ? ";" : ""
LastTerminator(r) == IF r.ok THEN <<";">> ELSE <<>>

\* the push after the loop, for the value `r` of its call
PushLastResult(statementRaw, r) == PushResult(statementRaw, r, LastTerminator(r), "done")

\* if (current.trim().length > 0) { ... }
ProcessRest(statementRaw) ==
    IF Len(statementRaw) > 0
    THEN PushLastResult(statementRaw, processStatement(statementRaw, Table(vars, proto)))
    ELSE pc' = "done" /\ UNCHANGED <<statement, res, vars, proto, results>>

\* the body of while (idx < text.length); statement and res are the locals
\* statementRaw and res of the last statement processed
LoopIteration ==
    /\ pc = "loop"
    /\ idx < Len(text)
    /\ IF CharAt(text, idx) = ";"
       THEN ProcessSegment(Trim(current))
       ELSE /\ current' = Append(current, CharAt(text, idx))
            /\ idx' = idx + 1
            /\ UNCHANGED <<pc, statement, res, vars, proto, results>>
    /\ UNCHANGED <<line, scan, tokens, parser, text>>

\* the text left after the last ';', then return { results, vars }
AfterLoop ==
    /\ pc = "loop"
    /\ idx >= Len(text)
    /\ ProcessRest(Trim(current))
    /\ UNCHANGED <<line, scan, tokens, parser, text, idx, current>>

Next == LoopIteration \/ AfterLoop

Spec == Init /\ [][Next]_allVars

-----------------------------------------------------------------------------
(* Reference notions the properties are stated with.                       *)

\* white space and line terminators
IsBlankChar(c) ==
    c \in {"\t", "\n", "", "\f", "\r", " ", "U+00A0", "U+1680", "U+2000", "U+2001",
           "U+2002", "U+2003", "U+2004", "U+2005", "U+2006", "U+2007", "U+2008",
           "U+2009", "U+200A", "U+2028", "U+2029", "U+202F", "U+205F", "U+3000",
           "U+FEFF"}

\* the text between the first and the last character that is not white space
Stripped(s) ==
    LET marks == {k \in 1..Len(s) : ~IsBlankChar(s[k])}
    IN  IF marks = {} THEN <<>>
        ELSE SubSeq(s, CHOOSE k \in marks : \A m \in marks : k <= m,
                       CHOOSE k \in marks : \A m \in marks : k >= m)

\* the segments of s between the occurrences of ';'
Segments(s) ==
    LET cuts == {k \in 1..Len(s) : s[k] = ";"}
        bounds == {0} \cup cuts \cup {Len(s) + 1}
        starts == {0} \cup cuts
        NextCut(b) == CHOOSE c \in bounds : c > b /\ \A d \in bounds : d > b => c <= d
        Start(n) == CHOOSE b \in starts : Cardinality({c \in starts : c < b}) = n - 1
    IN  [n \in 1..Cardinality(starts) |-> SubSeq(s, Start(n) + 1, NextCut(Start(n)) - 1)]

\* the segments that hold more than white space, stripped, in order
StatementsOf(segs) ==
    LET kept == {k \in 1..Len(segs) : Stripped(segs[k]) # <<>>}
        Nth(n) == CHOOSE k \in kept : Cardinality({m \in kept : m < k}) = n - 1
    IN  [n \in 1..Cardinality(kept) |-> Stripped(segs[Nth(n)])]

\* segs without its last segment
AllButLast(segs) == SubSeq(segs, 1, Len(segs) - 1)

\* an outcome's text without the terminator appended to it
WithoutTerminator(raw) ==
    IF raw # <<>> /\ raw[Len(raw)] = ";" THEN SubSeq(raw, 1, Len(raw) - 1) ELSE raw

\* results holds one outcome for each of stmts, in their order
ResultsMatch(stmts) ==
    /\ Len(results) = Len(stmts)
    /\ \A k \in 1..Len(stmts) :
          /\ WithoutTerminator(results[k].raw) = stmts[k]
          /\ results[k].status \in {"accepted", "cancel"}

\* C4: for every text processProgram returns, with exactly one outcome for
\* each segment between ';' that holds more than white space, the text after
\* the last ';' included, in source order, whatever the outcomes of the
\* earlier statements; no run is aborted, and while it runs results holds the
\* outcomes of the segments closed so far.
C4_OneOutcomePerStatement ==
    /\ pc # "thrown"
    /\ pc = "loop" => ResultsMatch(StatementsOf(AllButLast(Segments(Slice(text, 0, idx)))))
    /\ pc = "done" => ResultsMatch(StatementsOf(Segments(text)))

(* The reference evaluator: an expression is split at its last operator of  *)
(* lowest precedence outside parentheses.                                  *)

Value(n) == [k |-> "value", n |-> n]
IllFormed == [k |-> "ill-formed", n |-> 0]
Failed == [k |-> "error", n |-> 0]

\* parentheses open before token i
DepthAt(toks, i) ==
    Cardinality({m \in 1..(i - 1) : toks[m].type = "lparen"})
        - Cardinality({m \in 1..(i - 1) : toks[m].type = "rparen"})

Balanced(toks) ==
    /\ \A i \in 1..Len(toks) : DepthAt(toks, i + 1) >= 0
    /\ DepthAt(toks, Len(toks) + 1) = 0

\* the positions of the operators `ops` outside parentheses
TopLevel(toks, ops) ==
    {i \in 1..Len(toks) : toks[i].type = "op" /\ toks[i].value \in ops
                           /\ DepthAt(toks, i) = 0}

Last(S) == CHOOSE i \in S : \A m \in S : i >= m

RECURSIVE Power16(_)
Power16(e) == IF e = 0 THEN 1 ELSE 16 * Power16(e - 1)

RECURSIVE SumOver(_, _)
SumOver(f, S) ==
    IF S = {} THEN 0 ELSE LET e == CHOOSE e \in S : TRUE IN f[e] + SumOver(f, S \ {e})

\* a literal read in base 16: digit k from the right weighs 16^(k-1)
Base16(value) ==
    SumOver([k \in 1..Len(value) |->
                HexDigitValue[value[k]] * Power16(Len(value) - k)],
            1..Len(value))

\* the floor of a / b, b # 0: the integer q with q <= a/b < q + 1
Floor(aa, b) ==
    CHOOSE q \in (-Abs(aa))..Abs(aa) :
        IF b > 0 THEN q * b <= aa /\ aa < (q + 1) * b
                 ELSE q * b >= aa /\ aa > (q + 1) * b

Combine(op, l, r) ==
    IF l.k = "ill-formed" \/ r.k = "ill-formed" THEN IllFormed
    ELSE IF l.k = "error" \/ r.k = "error" THEN Failed
    ELSE IF op = <<"+">> THEN Value(l.n + r.n)
    ELSE IF op = <<"-">> THEN Value(l.n - r.n)
    ELSE IF op = <<"*">> THEN Value(l.n * r.n)
    ELSE IF r.n = 0 THEN Failed
    ELSE Value(Floor(l.n, r.n))

RefAtom(tok, tbl) ==
    IF tok.type = "hex" THEN Value(Base16(tok.value))
    ELSE IF tok.type = "identifier"
    THEN IF tok.value[1] \in Upper THEN IllFormed
         ELSE IF tok.value \in DOMAIN tbl /\ tbl[tok.value].t = "number"
         THEN Value(tbl[tok.value].n)
         ELSE Failed
    ELSE IllFormed

RECURSIVE RefEval(_, _)
RECURSIVE RefSplit(_, _, _)

\* the expression split at operator i
RefSplit(toks, tbl, i) ==
    Combine(toks[i].value, RefEval(SubSeq(toks, 1, i - 1), tbl),
                           RefEval(SubSeq(toks, i + 1, Len(toks)), tbl))

\* the value of the expression `toks` under the table tbl, "error" when it
\* refers to an identifier the table does not hold or divides by zero, and
\* "ill-formed" when it is no expression of the grammar
RefEval(toks, tbl) ==
    IF toks = <<>> \/ ~Balanced(toks) THEN IllFormed
    ELSE IF TopLevel(toks, {<<"+">>, <<"-">>}) # {}
    THEN RefSplit(toks, tbl, Last(TopLevel(toks, {<<"+">>, <<"-">>})))
    ELSE IF TopLevel(toks, {<<"*">>, <<"/">>}) # {}
    THEN RefSplit(toks, tbl, Last(TopLevel(toks, {<<"*">>, <<"/">>})))
    ELSE IF Len(toks) = 1 THEN RefAtom(toks[1], tbl)
    ELSE IF toks[1].type = "lparen" /\ toks[Len(toks)].type = "rparen"
    THEN RefEval(SubSeq(toks, 2, Len(toks) - 1), tbl)
    ELSE IllFormed

HasDivision(toks) == \E i \in 1..Len(toks) : toks[i].type = "op" /\ toks[i].value = <<"/">>

\* the table without the target of the assignment
Operands(tbl) == [k \in DOMAIN tbl \ {abc} |-> tbl[k]]

\* for a well-formed expression over hex literals, identifiers the table
\* defines, + - * and parentheses, parseExpression returns the value of the
\* reference evaluator and sets no error, and the assignment stores that value
ValueIsReference ==
    /\ (pc = "parsed" /\ ~HasDivision(tokens) /\ RefEval(tokens, vars).k = "value")
          => /\ parser.error = NoError
             /\ parser.val = Num(RefEval(tokens, vars).n)
             /\ parser.pos = Len(tokens)
    /\ (pc = "returned" /\ ~HasDivision(tokens)
          /\ RefEval(tokens, Operands(vars)).k = "value")
          => /\ res.ok
             /\ res.err = NoError
             /\ abc \in DOMAIN vars
             /\ vars[abc] = Num(RefEval(tokens, Operands(vars)).n)

\* 2 + 3 * 4 gives 14
ProductFirst == (pc = "parsed" /\ line = TwoPlusThreeTimesFour) => parser.val = Num(14)

\* abc := 1a5 + 2f stores `sum` in abc
HexSumStores(sum) ==
    (pc = "returned" /\ line = HexSum) => (abc \in DOMAIN vars /\ vars[abc] = Num(sum))

\* C5, as amended: for a well-formed expression over hex literals,
\* identifiers the table defines, + - * and parentheses, the value the Parser
\* computes, and the assignment stores, is the value of the reference
\* evaluator (literals in base 16, * before + and -, equal precedence from
\* left to right, parentheses first); 2 + 3 * 4 gives 14, and abc := 1a5 + 2f
\* stores 468, which is 0x1a5 + 0x2f = 421 + 47 = 0x1d4, in abc.
C5_ValueIsReference == ValueIsReference /\ ProductFirst /\ HexSumStores(468)

\* C5, as the specification states it: the same, with abc := 1a5 + 2f storing
\* 452 in abc.
C5_ValueAsStated == ValueIsReference /\ ProductFirst /\ HexSumStores(452)

\* abc := (3 + 1a) * x with x = -2: a literal with a hex letter, the
\* identifier, and parentheses around the operator of lower precedence; the
\* value parsed and stored is 29 * -2
C5_Witness ==
    /\ pc = "returned"
    /\ line = <<"(", "3", "+", "1", "a", ")", "*", "x">>
    /\ vars[x] = Num(-2)
    /\ parser.val = Num(-58)
    /\ vars[abc] = Num(-58)

\* the operands of the division an expression ends with: the expression has
\* no + or - outside parentheses, and no other division
DivisionOperands(toks) ==
    LET i == Last(TopLevel(toks, {<<"*">>, <<"/">>}))
    IN  [left |-> SubSeq(toks, 1, i - 1), right |-> SubSeq(toks, i + 1, Len(toks))]

EndsWithDivision(toks) ==
    /\ TopLevel(toks, {<<"+">>, <<"-">>}) = {}
    /\ TopLevel(toks, {<<"*">>, <<"/">>}) # {}
    /\ toks[Last(TopLevel(toks, {<<"*">>, <<"/">>}))].value = <<"/">>
    /\ ~HasDivision(DivisionOperands(toks).left)
    /\ ~HasDivision(DivisionOperands(toks).right)

\* C6: a / b, for operands that evaluate to the integers a and b, is the
\* floor of the quotient (the q with q*b <= a < (q+1)*b for b > 0, and with
\* q*b >= a > (q+1)*b for b < 0) when b # 0, and the error "Division by zero"
\* with no value when b = 0.
C6_FloorDivision ==
    (pc = "parsed" /\ EndsWithDivision(tokens))
        => LET l == RefEval(DivisionOperands(tokens).left, vars)
               r == RefEval(DivisionOperands(tokens).right, vars)
           IN  (l.k = "value" /\ r.k = "value")
                   => IF r.n = 0
                      THEN /\ parser.error = Error("Division by zero", <<>>, 0)
                           /\ parser.val = Null
                      ELSE /\ parser.error = NoError
                           /\ parser.val.t = "number"
                           /\ IF r.n > 0
                              THEN /\ parser.val.n * r.n <= l.n
                                   /\ l.n < (parser.val.n + 1) * r.n
                              ELSE /\ parser.val.n * r.n >= l.n
                                   /\ l.n > (parser.val.n + 1) * r.n

\* (0-3)/x with x = 5: a negative dividend whose quotient is inexact, floored
\* to -1
C6_Witness ==
    /\ pc = "parsed"
    /\ line = <<"(", "0", "-", "3", ")", "/", "x">>
    /\ vars[x] = Num(5)
    /\ parser.val = Num(-1)

(* The Grammar Validator of the specification, section 4.2: one pass with  *)
(* the flag "expecting an operand" and the depth of the parentheses.       *)

RECURSIVE ValidateFrom(_, _, _, _)
ValidateFrom(toks, k, expectOperand, depth) ==
    IF k > Len(toks)
    THEN IF depth # 0 THEN "missing closing parenthesis"
         ELSE IF expectOperand THEN "expression incomplete"
         ELSE "ok"
    ELSE IF expectOperand
    THEN IF toks[k].type = "hex"
         THEN IF IsHexLiteral(toks[k].value) THEN ValidateFrom(toks, k + 1, FALSE, depth)
              ELSE "invalid hex literal"
         ELSE IF toks[k].type = "identifier"
         THEN IF ~StartsUppercase(toks[k].value) THEN ValidateFrom(toks, k + 1, FALSE, depth)
              ELSE "identifier starts with an uppercase letter"
         ELSE IF toks[k].type = "lparen" THEN ValidateFrom(toks, k + 1, TRUE, depth + 1)
         ELSE "unexpected token"
    ELSE IF toks[k].type = "op" THEN ValidateFrom(toks, k + 1, TRUE, depth)
         ELSE IF toks[k].type = "rparen"
         THEN IF depth > 0 THEN ValidateFrom(toks, k + 1, FALSE, depth - 1)
              ELSE "missing opening parenthesis"
         ELSE "unexpected token"

validate(toks) ==
    IF \E k \in 1..Len(toks) : toks[k].type \in {"unknown", "comment"}
    THEN "unknown or comment token"
    ELSE IF toks = <<>> THEN "expression incomplete"
    ELSE ValidateFrom(toks, 1, TRUE, 0)

(* Statements, as the properties speak of them.                            *)

\* the statement's first characters after white space are //
IsCommentStatement(stmt) ==
    Len(Stripped(stmt)) >= 2 /\ Stripped(stmt)[1] = "/" /\ Stripped(stmt)[2] = "/"

\* the positions at which := stands in the statement
AssignMarks(stmt) == {k \in 1..(Len(stmt) - 1) : stmt[k] = ":" /\ stmt[k + 1] = "="}

IsAssignmentStatement(stmt) == ~IsCommentStatement(stmt) /\ AssignMarks(stmt) # {}

FirstMark(stmt) == CHOOSE k \in AssignMarks(stmt) : \A m \in AssignMarks(stmt) : k <= m

LeftSide(stmt) == Stripped(SubSeq(stmt, 1, FirstMark(stmt) - 1))
RightSide(stmt) == SubSeq(stmt, FirstMark(stmt) + 2, Len(stmt))

\* the tokens of the statement's expression: of the right side for an
\* assignment, of the whole statement otherwise
ExpressionTokens(stmt) ==
    IF AssignMarks(stmt) # {} THEN tokenizeLine(RightSide(stmt)) ELSE tokenizeLine(stmt)

\* the identifiers of toks the table tbl does not hold, by position
AbsentAt(toks, tbl) ==
    {k \in 1..Len(toks) : toks[k].type = "identifier" /\ toks[k].value \notin DOMAIN tbl}

\* C1: for a statement whose evaluation failed with a semantic error
\* (undefined variable, division by zero), the outcome processProgram pushes
\* has status accepted and carries that message.
C1_SemanticMessageKept ==
    (results # <<>> /\ res.err.kind \in {"Undefined variable", "Division by zero"})
        => /\ results[Len(results)].status = "accepted"
           /\ results[Len(results)].message = res.err

\* what the table becomes by one statement: only an assignment whose left
\* side is an identifier and whose right side evaluates changes it
RefStatement(tbl, stmt) ==
    IF IsAssignmentStatement(stmt) /\ IsLeftIdentifier(LeftSide(stmt))
       /\ RefEval(tokenizeLine(RightSide(stmt)), tbl).k = "value"
    THEN [k \in DOMAIN tbl \cup {LeftSide(stmt)} |->
             IF k = LeftSide(stmt)
             THEN Num(RefEval(tokenizeLine(RightSide(stmt)), tbl).n)
             ELSE tbl[k]]
    ELSE tbl

RECURSIVE RefProgram(_, _)
RefProgram(tbl, stmts) ==
    IF stmts = <<>> THEN tbl
    ELSE RefProgram(RefStatement(tbl, Head(stmts)), Tail(stmts))

\* C2: after the statements of a text, processed from an empty table, the
\* table maps each identifier to the value of the last assignment to it that
\* evaluated, and holds no other key: rejected statements, statements
\* accepted with a semantic error, comments and bare expressions change
\* nothing.
C2_TableIsLastAssignments ==
    pc = "done" => vars = RefProgram(EmptyTable.own, StatementsOf(Segments(text)))

\* C3: a statement that is accepted and is no comment has an expression
\* that is valid under the Grammar Validator.
C3_AcceptedIsValid ==
    (pc = "returned" /\ res.ok /\ ~IsCommentStatement(statement))
        => validate(ExpressionTokens(statement)) = "ok"

\* C7: a statement whose trimmed text starts with // is accepted with no
\* message, whatever follows, and the table is left as it was.
C7_CommentAccepted ==
    [][(pc = "call" /\ IsCommentStatement(statement))
          => (res'.ok /\ res'.err = NoError /\ vars' = vars)]_allVars

\* the comment //:=# processed against a table that defines a
C7_Witness ==
    /\ pc = "returned"
    /\ statement = <<"/", "/", ":", "=", "#">>
    /\ res.ok
    /\ a \in DOMAIN vars

\* C8: an assignment whose left side starts with an uppercase letter is
\* rejected with the message "cannot start with uppercase letter", and the
\* table is left as it was.
C8_UppercaseMessage ==
    [][(pc = "call" /\ IsAssignmentStatement(statement)
          /\ LeftSide(statement) # <<>> /\ LeftSide(statement)[1] \in Upper)
          => (/\ ~res'.ok
              /\ res'.err.kind = "Identifier cannot start with uppercase letter"
              /\ vars' = vars)]_allVars

\* C9: when the expression of an assignment is well formed and refers to
\* several identifiers the table does not hold, the error is "Undefined
\* variable" with the leftmost of them, and the table is left as it was.
C9_LeftmostUndefined ==
    [][(/\ results' # results
        /\ IsAssignmentStatement(statement')
        /\ IsLeftIdentifier(LeftSide(statement'))
        /\ validate(ExpressionTokens(statement')) = "ok"
        /\ Cardinality({ExpressionTokens(statement')[k].value :
                           k \in AbsentAt(ExpressionTokens(statement'), vars)}) >= 2)
          => (/\ res'.err = Error("Undefined variable",
                       ExpressionTokens(statement')
                           [Last({k \in AbsentAt(ExpressionTokens(statement'), vars) :
                                  \A m \in AbsentAt(ExpressionTokens(statement'), vars) :
                                      k <= m})].value, 0)
              /\ vars' = vars)]_allVars

(* tokenizeLine.                                                           *)

\* the characters of the line scanned so far
Scanned == IF scan.brk THEN Len(line) ELSE scan.i

\* the 0-based positions a token spans
Span(t) == t.pos .. (t.pos + Len(t.value) - 1)

\* the tokens found so far lie in the line, in order and apart, each with
\* the text at its offset, an unknown token with one character, and together
\* they hold each scanned character that is not white space exactly once
TokensCover(toks) ==
    /\ scan.i <= Len(line)
    /\ \A k \in 1..Len(toks) :
          /\ toks[k].value # <<>>
          /\ toks[k].pos >= 0
          /\ toks[k].pos + Len(toks[k].value) <= Len(line)
          /\ toks[k].value = SubSeq(line, toks[k].pos + 1, toks[k].pos + Len(toks[k].value))
          /\ toks[k].type = "unknown" => Len(toks[k].value) = 1
    /\ \A k \in 1..(Len(toks) - 1) :
          /\ toks[k].pos < toks[k + 1].pos
          /\ Span(toks[k]) \cap Span(toks[k + 1]) = {}
    /\ \A c \in 0..(Scanned - 1) :
          line[c + 1] \notin {" ", "\t", "\r", "\n"}
              => Cardinality({k \in 1..Len(toks) : c \in Span(toks[k])}) = 1

\* C10: tokenizeLine terminates, every iteration of its loop advancing the
\* index or stopping at a comment, and its tokens have increasing offsets,
\* the text of the line at their offset, no overlap, one character when
\* unknown, and hold every character that is not white space exactly once.
C10_TokenizerTotal ==
    /\ [](TokensCover(scan.tokens) /\ (pc = "scanned" => tokens = scan.tokens))
    /\ [][scan' # scan => (scan'.i > scan.i \/ scan'.brk)]_allVars
    /\ <>(pc = "scanned")

\* the line ": =" scanned: the colon alone is an unknown token, the = another
C10_Witness ==
    /\ pc = "scanned"
    /\ line = <<":", " ", "=">>
    /\ Len(tokens) = 2
    /\ tokens[1] = Token("unknown", <<":">>, 0)
    /\ tokens[2] = Token("unknown", <<"=">>, 2)

====
